---- MODULE Spec2Model ----
(***************************************************************************)
(* lookatme: the slide renderer thread (SlideRenderer, tui.py), the        *)
(* token-to-widget render functions it dispatches to (markdown_block.py)   *)
(* and the navigation frame (CurrentSlide, tui.py) that drives it.         *)
(*                                                                         *)
(* Two threads share events, queue and cache: the main thread, which runs  *)
(* CurrentSlide.__init__ and then one keypress handler at a time, and the  *)
(* daemon thread SlideRenderer.run.  Every access to a shared object is a  *)
(* step of its own, so that the other thread may run between any two.      *)
(***************************************************************************)
EXTENDS Integers, Sequences, FiniteSets, TLC

\* Number of slides of the presentation (len(pres.slides)), at least one.
NumSlides == 2

\* Number of calls the client of SpecAPI makes to the renderer.
MaxCalls == 2

\* Deepest nesting of lists and block quotes in the slides that exercise
\* the render functions.
MaxDepth == 3

\* Longest run of text and newline tokens inside a block quote there.
MaxRun == 5

Slides == 0 .. (NumSlides - 1)

(***************************************************************************)
(* Tokens.  A token is a dict with a "type" and type-specific fields; the  *)
(* fields the render functions read are "text" and "level".                *)
(***************************************************************************)
Tok(type, text, level) == [type |-> type, text |-> text, level |-> level]

\* The token types that have a render_<type> function in markdown_block.
RenderFunctions ==
    {"newline", "heading", "table", "list_start", "list_end",
     "list_item_start", "loose_item_start", "list_item_end", "text",
     "paragraph", "block_quote_start", "block_quote_end", "code"}

(***************************************************************************)
(* Widgets.  A pile is an object with a contents list and, once _meta or   *)
(* _propagate_meta has touched it, a meta dict; piles live in a heap       *)
(* (a sequence indexed by pile id) because widgets refer to them and the   *)
(* stack aliases them.  A widget is a record; "pile" is the id of the      *)
(* pile it wraps (0: none).                                                *)
(***************************************************************************)
Widget(w, pile, txt, lvl) == [w |-> w, pile |-> pile, txt |-> txt, lvl |-> lvl]

Divider == Widget("Divider", 0, "", 0)

IsDivider(x) == x.w = "Divider"

EmptyMeta == [key \in {} |-> 0]

NewPile(meta) == [contents |-> <<>>, meta |-> meta]

\* dict.update: the keys of b win.
DictUpdate(a, b) ==
    [key \in DOMAIN a \cup DOMAIN b |-> IF key \in DOMAIN b THEN b[key] ELSE a[key]]

\* _meta(item): the item's meta dict, created empty on first use.
_meta(item) == item.meta

\* _set_is_list(item, level)
_set_is_list(item, level) ==
    [item EXCEPT !.meta = DictUpdate(_meta(item), [is_list |-> TRUE, list_level |-> level])]

\* _is_list(item): _meta(item).get("is_list", False)
_is_list(item) ==
    IF "is_list" \in DOMAIN _meta(item) THEN _meta(item)["is_list"] ELSE FALSE

\* _list_level(item): _meta(item).get("list_level", 1)
_list_level(item) ==
    IF "list_level" \in DOMAIN _meta(item) THEN _meta(item)["list_level"] ELSE 1

\* _propagate_meta with the update the other way round: item1's keys win.
_propagate_meta_parent_wins(item1, item2) ==
    [item2 EXCEPT !.meta = DictUpdate(item2.meta, item1.meta)]

\* SlideRenderer._propagate_meta(item1, item2): item2.meta becomes a copy of
\* item1.meta updated with item2's own meta.
_propagate_meta(item1, item2) ==
    [item2 EXCEPT !.meta = DictUpdate(item1.meta, item2.meta)]

\* lookatme.utils.pile_add(pile, widgets): a single widget or a list of
\* widgets is appended to the pile's contents.
pile_add(pile, widgets) == [pile EXCEPT !.contents = @ \o widgets]

(***************************************************************************)
(* The render functions.  Each takes the token and the reduction state     *)
(* rs = [stack, piles, err] (stack: pile ids, innermost last; err: the     *)
(* exception raised, "" for none) and yields [rs, res, text]: the new      *)
(* state, the widgets returned (<<>> for None) and the token's text after  *)
(* the call (render_paragraph rewrites it).                                *)
(***************************************************************************)
Top(rs) == rs.stack[Len(rs.stack)]

Push(rs, pile) ==
    [rs EXCEPT !.piles = Append(@, pile), !.stack = Append(@, Len(rs.piles) + 1)]

Pop(rs) == [rs EXCEPT !.stack = SubSeq(@, 1, Len(@) - 1)]

Raise(rs, exc) == [rs EXCEPT !.err = exc]

Out(rs, res, text) == [rs |-> rs, res |-> res, text |-> text]

\* str.replace("\r\n", " ").replace("\n", " ") over the texts of the model.
ReplaceNewlines(text) ==
    CASE text = "a\nb" -> "a b"
      [] text = "a\r\nb" -> "a b"
      [] OTHER -> text

\* headings.get(str(level), headings["default"]): levels 1 to 4 are styled,
\* every other level takes the default entry (0 here).
HeadingStyle(level) == IF level \in 1 .. 4 THEN level ELSE 0

\* bullets.get(str(list_level), bullets["default"]): levels 1 to 3.
BulletStyle(level) == IF level \in 1 .. 3 THEN level ELSE 0

\* render_text: the inline lexer's output, [""] when it is empty, wrapped
\* in a ClickableText.
render_text(text) ==
    LET res == IF text = "" THEN <<>> ELSE <<text>>
        markup == IF Len(res) = 0 THEN <<"">> ELSE res
    IN  Widget("ClickableText", 0, markup[1], 0)

render_newline(token, rs) == Out(rs, <<Divider>>, token.text)

render_heading(token, rs) ==
    LET rendered == render_text(token.text)
    IN  Out(rs,
            <<Divider,
              Widget("ClickableText", 0, rendered.txt, HeadingStyle(token.level)),
              Divider>>,
            token.text)

render_table(token, rs) == Out(rs, <<Widget("Table", 0, "", 0)>>, token.text)

\* render_list_start that takes the level of the enclosing list as its own.
render_list_start_same_level(token, rs) ==
    LET in_list == _is_list(rs.piles[Top(rs)])
        list_level == IF in_list THEN _list_level(rs.piles[Top(rs)]) ELSE 1
        res == _set_is_list(NewPile(EmptyMeta), list_level)
        pushed == Push(rs, res)
        padding == Widget("Padding", Top(pushed), "", 2)
    IN  Out(pushed,
            IF in_list THEN <<padding>> ELSE <<Divider, padding, Divider>>,
            token.text)

render_list_start(token, rs) ==
    LET in_list == _is_list(rs.piles[Top(rs)])
        list_level == IF in_list THEN _list_level(rs.piles[Top(rs)]) + 1 ELSE 1
        res == _set_is_list(NewPile(EmptyMeta), list_level)
        pushed == Push(rs, res)
        padding == Widget("Padding", Top(pushed), "", 2)
    IN  Out(pushed,
            IF in_list THEN <<padding>> ELSE <<Divider, padding, Divider>>,
            token.text)

render_list_end(token, rs) ==
    IF Len(rs.stack) = 0
    THEN Out(Raise(rs, "IndexError"), <<>>, token.text)
    ELSE Out(Pop(rs), <<>>, token.text)

_list_item_start(token, rs) ==
    LET list_level == _list_level(rs.piles[Top(rs)])
        pushed == Push(rs, NewPile(EmptyMeta))
    IN  Out(pushed,
            <<Widget("Columns", Top(pushed), "", BulletStyle(list_level))>>,
            token.text)

render_list_item_start(token, rs) == _list_item_start(token, rs)

render_loose_item_start(token, rs) == _list_item_start(token, rs)

\* render_list_item_end without the pop.
render_list_item_end_keeps_frame(token, rs) == Out(rs, <<>>, token.text)

render_list_item_end(token, rs) ==
    IF Len(rs.stack) = 0
    THEN Out(Raise(rs, "IndexError"), <<>>, token.text)
    ELSE Out(Pop(rs), <<>>, token.text)

\* render_paragraph rendering the text it was given, not the rewritten one.
render_paragraph_given_text(token, rs) ==
    Out(rs, <<Divider, render_text(token.text), Divider>>, ReplaceNewlines(token.text))

render_paragraph(token, rs) ==
    LET text == ReplaceNewlines(token.text)
    IN  Out(rs, <<Divider, render_text(text), Divider>>, text)

render_block_quote_start(token, rs) ==
    LET pushed == Push(rs, NewPile(EmptyMeta))
    IN  Out(pushed,
            <<Divider, Widget("LineBox", Top(pushed), "", 2), Divider>>,
            token.text)

\* pile = stack.pop(); a leading Divider is dropped, then a trailing one.
\* Indexing the contents of an empty pile raises IndexError.
render_block_quote_end(token, rs) ==
    IF Len(rs.stack) = 0
    THEN Out(Raise(rs, "IndexError"), <<>>, token.text)
    ELSE LET id == Top(rs)
             popped == Pop(rs)
             c0 == rs.piles[id].contents
         IN  IF Len(c0) = 0
             THEN Out(Raise(popped, "IndexError"), <<>>, token.text)
             ELSE LET c1 == IF IsDivider(c0[1]) THEN Tail(c0) ELSE c0
                      after1 == [popped EXCEPT !.piles[id].contents = c1]
                  IN  IF Len(c1) = 0
                      THEN Out(Raise(after1, "IndexError"), <<>>, token.text)
                      ELSE LET c2 == IF IsDivider(c1[Len(c1)])
                                     THEN SubSeq(c1, 1, Len(c1) - 1)
                                     ELSE c1
                           IN  Out([after1 EXCEPT !.piles[id].contents = c2],
                                   <<>>, token.text)

render_code(token, rs) ==
    Out(rs, <<Divider, Widget("Code", 0, token.text, 0), Divider>>, token.text)

\* The lookup with the default of the commented-out line 94: a type without a
\* render function renders as nothing.
render_token_skips_unknown(token, rs) ==
    CASE token.type = "newline" -> render_newline(token, rs)
      [] token.type = "heading" -> render_heading(token, rs)
      [] token.type = "table" -> render_table(token, rs)
      [] token.type = "list_start" -> render_list_start(token, rs)
      [] token.type = "list_end" -> render_list_end(token, rs)
      [] token.type = "list_item_start" -> render_list_item_start(token, rs)
      [] token.type = "loose_item_start" -> render_loose_item_start(token, rs)
      [] token.type = "list_item_end" -> render_list_item_end(token, rs)
      [] token.type = "text" -> Out(rs, <<render_text(token.text)>>, token.text)
      [] token.type = "paragraph" -> render_paragraph(token, rs)
      [] token.type = "block_quote_start" -> render_block_quote_start(token, rs)
      [] token.type = "block_quote_end" -> render_block_quote_end(token, rs)
      [] token.type = "code" -> render_code(token, rs)
      [] OTHER -> Out(rs, <<>>, token.text)

\* getattr(lam_md, f"render_{token['type']}") and the call of what it finds;
\* a type without a render function raises AttributeError.
render_token(token, rs) ==
    CASE token.type = "newline" -> render_newline(token, rs)
      [] token.type = "heading" -> render_heading(token, rs)
      [] token.type = "table" -> render_table(token, rs)
      [] token.type = "list_start" -> render_list_start(token, rs)
      [] token.type = "list_end" -> render_list_end(token, rs)
      [] token.type = "list_item_start" -> render_list_item_start(token, rs)
      [] token.type = "loose_item_start" -> render_loose_item_start(token, rs)
      [] token.type = "list_item_end" -> render_list_item_end(token, rs)
      [] token.type = "text" -> Out(rs, <<render_text(token.text)>>, token.text)
      [] token.type = "paragraph" -> render_paragraph(token, rs)
      [] token.type = "block_quote_start" -> render_block_quote_start(token, rs)
      [] token.type = "block_quote_end" -> render_block_quote_end(token, rs)
      [] token.type = "code" -> render_code(token, rs)
      [] OTHER -> Out(Raise(rs, "AttributeError"), <<>>, token.text)

\* One iteration of the for loop of SlideRenderer.run (lines 88-101) on one
\* token: last_stack = stack[-1] (IndexError on an empty stack), the render
\* call, the propagation of the metadata onto a pushed pile, and pile_add of
\* the result to last_stack.
ReduceToken(token, rs) ==
    IF Len(rs.stack) = 0
    THEN Out(Raise(rs, "IndexError"), <<>>, token.text)
    ELSE LET last_stack == Top(rs)
             last_stack_len == Len(rs.stack)
             out == render_token(token, rs)
             r1 == out.rs
             r2 == IF r1.err = "" /\ Len(r1.stack) > last_stack_len
                   THEN [r1 EXCEPT !.piles[Top(r1)] =
                            _propagate_meta(r1.piles[last_stack], r1.piles[Top(r1)])]
                   ELSE r1
             r3 == IF r2.err = "" /\ out.res # <<>>
                   THEN [r2 EXCEPT !.piles[last_stack] = pile_add(@, out.res)]
                   ELSE r2
         IN  Out(r3, out.res, out.text)

\* tmp_pile = urwid.Pile([]); stack = [tmp_pile]
StartReduction == [stack |-> <<1>>, piles |-> <<NewPile(EmptyMeta)>>, err |-> ""]

\* The reduction of a whole token sequence, left to right, stopping at the
\* first exception.
RECURSIVE ReduceFrom(_, _, _)
ReduceFrom(tokens, i, rs) ==
    IF i > Len(tokens) \/ rs.err # ""
    THEN rs
    ELSE ReduceFrom(tokens, i + 1, ReduceToken(tokens[i], rs).rs)

ReduceAll(tokens) == ReduceFrom(tokens, 1, StartReduction)

(***************************************************************************)
(* The presentation.  Slides are numbered 0 .. NumSlides-1; each deck      *)
(* gives every slide one of the token sequences below.                     *)
(***************************************************************************)
SlideKinds ==
    << <<Tok("heading", "a", 1), Tok("paragraph", "a\nb", 0)>>,
       <<Tok("list_start", "", 0), Tok("list_item_start", "", 0),
         Tok("text", "a", 0), Tok("list_item_end", "", 0), Tok("list_end", "", 0)>>,
       <<Tok("block_quote_start", "", 0), Tok("paragraph", "a", 0),
         Tok("block_quote_end", "", 0)>>,
       <<Tok("text", "", 0), Tok("hrule", "", 0), Tok("newline", "", 0)>> >>

\* The kinds every token of which has a render function.
GoodKinds == {i \in DOMAIN SlideKinds :
                 \A j \in DOMAIN SlideKinds[i] : SlideKinds[i][j].type \in RenderFunctions}

Deck(kinds, r) ==
    [s \in Slides |-> SlideKinds[kinds[((s + r) % Len(kinds)) + 1]]]

\* Decks of slides that all reduce, and one whose slide 1 holds a token
\* without a render function.
GoodDecks == {Deck(<<2, 1, 3>>, r) : r \in 0 .. 1}

BadDecks == {Deck(<<3, 4, 1>>, 0)}

Decks == GoodDecks \cup BadDecks

(***************************************************************************)
(* Slides that exercise the render functions: balanced token sequences of  *)
(* lists and block quotes nested up to MaxDepth deep, and block quotes     *)
(* around every run of up to MaxRun text and newline tokens.               *)
(***************************************************************************)
TextTok == Tok("text", "a", 0)

NewlineTok == Tok("newline", "", 0)

Item(body) == <<Tok("list_item_start", "", 0)>> \o body \o <<Tok("list_item_end", "", 0)>>

List(items) == <<Tok("list_start", "", 0)>> \o items \o <<Tok("list_end", "", 0)>>

Quote(body) ==
    <<Tok("block_quote_start", "", 0)>> \o body \o <<Tok("block_quote_end", "", 0)>>

Leaves == {<< >>, <<TextTok>>, <<NewlineTok>>}

\* A first item around b, then nothing or an empty sibling item.
RECURSIVE Nested(_)
Nested(d) ==
    IF d = 0
    THEN Leaves
    ELSE Leaves
         \cup {List(Item(b) \o t) : b \in Nested(d - 1), t \in {<< >>, Item(<< >>)}}
         \cup {Quote(b) : b \in Nested(d - 1)}

LeafRuns(n) == UNION {[1 .. m -> {TextTok, NewlineTok}] : m \in 0 .. n}

TokenSeqs == Nested(MaxDepth) \cup {Quote(r) : r \in LeafRuns(MaxRun)}

ReduceDecks == {[s \in Slides |-> toks] : toks \in TokenSeqs}

VARIABLES
    pres,            \* pres.slides: slide number -> its tokens
    events,          \* SlideRenderer.events: slide number -> Event flag, made on first use
    queue,           \* SlideRenderer.queue: slide numbers, oldest first
    cache,           \* SlideRenderer.cache: slide number -> rendered result
    wpc,             \* the renderer thread's position in run()
    to_render,       \* run(): the slide taken from the queue (-1: none)
    ti,              \* run(): index of the next token of the for loop
    rstate,          \* run(): the stack and the piles made so far, and the exception raised
    nrenders,        \* number of tmp_pile objects made so far: the identity of the next
    npc,             \* the main thread's position
    ret,             \* where the main thread's current call came from
    call,            \* render_slide / queue_render: the arguments slide and force
    rendered,        \* the value render_slide returned
    k,               \* CurrentSlide.__init__: index of the for loop over pres.slides[1:]
    key,             \* keypress: the key
    slide_direction, \* keypress: the direction
    new_slide_num,   \* keypress: the clamped target
    curr_slide,      \* CurrentSlide.curr_slide (its number)
    slide_body,      \* CurrentSlide.slide_body.contents
    slide_num,       \* CurrentSlide.slide_num's text
    screen,          \* what draw_screen last put on the terminal
    ncalls,          \* SpecAPI: calls the client has made
    puts,            \* history: every slide number put on the queue, in order
    stores,          \* history: every cache write, in order: [slide, id]
    began,           \* history: nrenders when the current render_slide call began
    cleared,         \* history: the slide's cache entry (its id, 0: none) when that call cleared its event
    returned,        \* history: slide -> what the frame's last render_slide of it returned
    reduced,         \* history: slides a token of which was reduced since that return
    dups             \* history: slides put on the queue while already waiting in it

vars == <<pres, events, queue, cache, wpc, to_render, ti, rstate, nrenders,
          npc, ret, call, rendered, k, key, slide_direction, new_slide_num,
          curr_slide, slide_body, slide_num, screen, ncalls, puts, stores,
          began, cleared, returned, reduced, dups>>

shared == <<events, queue, cache>>
worker == <<wpc, to_render, ti, rstate, nrenders>>
keys == <<key, slide_direction, new_slide_num>>
view == <<curr_slide, slide_body, slide_num, screen>>
history == <<puts, stores, began, cleared, returned, reduced, dups>>

\* A rendered result: tmp_pile.contents, the list object (id) and what it
\* holds (its widgets and the piles they wrap).
Result(id, rs) == [id |-> id, contents |-> rs.piles[1].contents, piles |-> rs.piles]

SameValue(r1, r2) == r1.contents = r2.contents /\ r1.piles = r2.piles

NoResult == [id |-> 0, contents |-> <<>>, piles |-> <<>>]

\* urwid.Pile(urwid.SimpleListWalker([urwid.Text("test")]))
TestBody == [id |-> 0, contents |-> <<Widget("Text", 0, "test", 0)>>, piles |-> <<>>]

\* "slide {} / {}".format(number + 1, len(pres.slides))
SlideText(number) == [text |-> "slide", pos |-> number + 1, total |-> NumSlides]

TestText == [text |-> "test", pos |-> 0, total |-> 0]

NoCall == [slide |-> -1, force |-> FALSE]

NoScreen == [body |-> NoResult, num |-> TestText]

IdleReduction == [stack |-> <<>>, piles |-> <<>>, err |-> ""]

Range(seq) == {seq[i] : i \in DOMAIN seq}

\* threading.Event objects in a defaultdict: a missing key is made, unset.
EventClear(ev, s) == [x \in DOMAIN ev \cup {s} |-> IF x = s THEN FALSE ELSE ev[x]]
EventSet(ev, s) == [x \in DOMAIN ev \cup {s} |-> IF x = s THEN TRUE ELSE ev[x]]
EventIsSet(ev, s) == s \in DOMAIN ev /\ ev[s]

CachePut(c, s, r) == [x \in DOMAIN c \cup {s} |-> IF x = s THEN r ELSE c[x]]

\* SlideRenderer.__init__ and start()
InitRenderer ==
    /\ events = [x \in {} |-> FALSE]
    /\ queue = <<>>
    /\ cache = [x \in {} |-> NoResult]
    /\ wpc = "get"
    /\ to_render = -1
    /\ ti = 0
    /\ rstate = IdleReduction
    /\ nrenders = 0
    /\ puts = <<>>
    /\ stores = <<>>
    /\ began = 0
    /\ cleared = 0
    /\ returned = [s \in Slides |-> NoResult]
    /\ reduced = {}
    /\ dups = {}

\* The main thread's locals and the frame's fields before update().
InitLocals ==
    /\ call = NoCall
    /\ rendered = NoResult
    /\ k = 0
    /\ key = <<>>
    /\ slide_direction = 0
    /\ new_slide_num = 0
    /\ curr_slide = 0
    /\ slide_body = TestBody
    /\ slide_num = TestText
    /\ screen = NoScreen
    /\ ncalls = 0

\* CurrentSlide.__init__ down to line 136, with idx = 0 as run_presentation
\* calls it.
InitFrame(decks) ==
    /\ pres \in decks
    /\ InitRenderer
    /\ InitLocals
    /\ npc = "update"
    /\ ret = "init"

Init == InitFrame(Decks)

(***************************************************************************)
(* SlideRenderer.run, the renderer thread.  It is a daemon thread: it      *)
(* ends with the process, when the main thread has left the main loop.     *)
(***************************************************************************)
Alive == npc # "exited"

\* A worker that drops a queue entry whose slide is already in the cache.
WorkerGetSkipsCached ==
    /\ Alive
    /\ wpc = "get"
    /\ queue # <<>>
    /\ queue' = Tail(queue)
    /\ IF Head(queue) \in DOMAIN cache
       THEN UNCHANGED <<to_render, rstate, nrenders, ti, wpc>>
       ELSE /\ to_render' = Head(queue)
            /\ rstate' = StartReduction
            /\ nrenders' = nrenders + 1
            /\ ti' = 1
            /\ wpc' = IF Len(pres[Head(queue)]) = 0 THEN "store" ELSE "token"
    /\ UNCHANGED <<pres, events, cache, npc, ret, call, rendered, k, keys, view,
                   ncalls, history>>

\* lines 80-87: to_render = self.queue.get(); tmp_pile; stack
WorkerGet ==
    /\ Alive
    /\ wpc = "get"
    /\ queue # <<>>
    /\ to_render' = Head(queue)
    /\ queue' = Tail(queue)
    /\ rstate' = StartReduction
    /\ nrenders' = nrenders + 1
    /\ ti' = 1
    /\ wpc' = IF Len(pres[Head(queue)]) = 0 THEN "store" ELSE "token"
    /\ UNCHANGED <<pres, events, cache, npc, ret, call, rendered, k, keys, view,
                   ncalls, history>>

\* A worker that writes the cache after every token, not once at the end.
WorkerTokenStoresAsItGoes ==
    /\ Alive
    /\ wpc = "token"
    /\ LET out == ReduceToken(pres[to_render][ti], rstate)
       IN  /\ rstate' = out.rs
           /\ pres' = [pres EXCEPT ![to_render][ti].text = out.text]
           /\ ti' = ti + 1
           /\ wpc' = IF out.rs.err # "" THEN "dead"
                     ELSE IF ti = Len(pres[to_render]) THEN "store" ELSE "token"
           /\ cache' = CachePut(cache, to_render, Result(nrenders, out.rs))
    /\ reduced' = IF ret = "client" THEN reduced ELSE reduced \cup {to_render}
    /\ UNCHANGED <<events, queue, to_render, nrenders, npc, ret, call,
                   rendered, k, keys, view, ncalls, puts, stores, began, cleared, returned, dups>>

\* lines 88-101: one token of the for loop.  An exception ends the thread.
WorkerToken ==
    /\ Alive
    /\ wpc = "token"
    /\ LET out == ReduceToken(pres[to_render][ti], rstate)
       IN  /\ rstate' = out.rs
           /\ pres' = [pres EXCEPT ![to_render][ti].text = out.text]
           /\ ti' = ti + 1
           /\ wpc' = IF out.rs.err # "" THEN "dead"
                     ELSE IF ti = Len(pres[to_render]) THEN "store" ELSE "token"
    /\ reduced' = IF ret = "client" THEN reduced ELSE reduced \cup {to_render}
    /\ UNCHANGED <<events, queue, cache, to_render, nrenders, npc, ret, call,
                   rendered, k, keys, view, ncalls, puts, stores, began, cleared, returned, dups>>

\* line 106: self.cache[slide_num] = tmp_pile.contents
WorkerStore ==
    /\ Alive
    /\ wpc = "store"
    /\ cache' = CachePut(cache, to_render, Result(nrenders, rstate))
    /\ stores' = Append(stores, [slide |-> to_render, id |-> nrenders])
    /\ wpc' = "set"
    /\ UNCHANGED <<pres, events, queue, to_render, ti, rstate, nrenders, npc, ret,
                   call, rendered, k, keys, view, ncalls, puts, began, cleared, returned,
                   reduced, dups>>

\* A worker with one signal for all slides: the set releases every waiter.
WorkerSetsEverySignal ==
    /\ Alive
    /\ wpc = "set"
    /\ events' = [x \in Slides |-> TRUE]
    /\ wpc' = "get"
    /\ to_render' = -1
    /\ ti' = 0
    /\ rstate' = IdleReduction
    /\ UNCHANGED <<pres, queue, cache, nrenders, npc, ret, call, rendered, k, keys,
                   view, ncalls, history>>

\* line 107: self.events[slide_num].set(), and back to the top of the loop;
\* the locals of the iteration are dead from here on.
WorkerSet ==
    /\ Alive
    /\ wpc = "set"
    /\ events' = EventSet(events, to_render)
    /\ wpc' = "get"
    /\ to_render' = -1
    /\ ti' = 0
    /\ rstate' = IdleReduction
    /\ UNCHANGED <<pres, queue, cache, nrenders, npc, ret, call, rendered, k, keys,
                   view, ncalls, history>>

Worker == WorkerGet \/ WorkerToken \/ WorkerStore \/ WorkerSet

(***************************************************************************)
(* SlideRenderer.render_slide and queue_render, run by the main thread.    *)
(***************************************************************************)

\* render_slide without its cache test: every call clears, queues and waits.
RenderSlideCheckNoCache ==
    /\ npc = "rs_check"
    /\ npc' = "rs_clear"
    /\ UNCHANGED <<pres, shared, worker, ret, call, rendered, k, keys, view, ncalls,
                   history>>

\* line 52-53: if not force and slide.number in self.cache: return the entry
RenderSlideCheck ==
    /\ npc = "rs_check"
    /\ IF ~call.force /\ call.slide \in DOMAIN cache
       THEN /\ rendered' = cache[call.slide]
            /\ npc' = "rs_return"
       ELSE /\ npc' = "rs_clear"
            /\ UNCHANGED rendered
    /\ UNCHANGED <<pres, shared, worker, ret, call, k, keys, view, ncalls, history>>

\* line 55: self.events[slide.number].clear()
RenderSlideClear ==
    /\ npc = "rs_clear"
    /\ events' = EventClear(events, call.slide)
    /\ cleared' = IF call.slide \in DOMAIN cache THEN cache[call.slide].id ELSE 0
    /\ npc' = "rs_put"
    /\ UNCHANGED <<pres, queue, cache, worker, ret, call, rendered, k, keys, view,
                   ncalls, puts, stores, began, returned, reduced, dups>>

\* A put at the head of the queue: last in, first out.
PutAtFront(slide) ==
    /\ queue' = <<slide>> \o queue
    /\ puts' = Append(puts, slide)
    /\ dups' = IF slide \in Range(queue) THEN dups \cup {slide} ELSE dups

\* A put that leaves out a slide the queue already holds.
PutUnlessQueued(slide) ==
    /\ queue' = IF slide \in Range(queue) THEN queue ELSE Append(queue, slide)
    /\ puts' = Append(puts, slide)
    /\ dups' = IF slide \in Range(queue) THEN dups \cup {slide} ELSE dups

\* queue.put(slide)
Put(slide) ==
    /\ queue' = Append(queue, slide)
    /\ puts' = Append(puts, slide)
    /\ dups' = IF slide \in Range(queue) THEN dups \cup {slide} ELSE dups

\* line 56: self.queue.put(slide)
RenderSlidePut ==
    /\ npc = "rs_put"
    /\ Put(call.slide)
    /\ npc' = "rs_wait"
    /\ UNCHANGED <<pres, events, cache, worker, ret, call, rendered, k, keys, view,
                   ncalls, stores, began, cleared, returned, reduced>>

\* line 57: self.events[slide.number].wait()
RenderSlideWait ==
    /\ npc = "rs_wait"
    /\ EventIsSet(events, call.slide)
    /\ npc' = "rs_read"
    /\ UNCHANGED <<pres, shared, worker, ret, call, rendered, k, keys, view, ncalls,
                   history>>

\* line 59: return self.cache[slide.number] (KeyError when it is not there)
RenderSlideRead ==
    /\ npc = "rs_read"
    /\ IF call.slide \in DOMAIN cache
       THEN /\ rendered' = cache[call.slide]
            /\ npc' = "rs_return"
       ELSE /\ npc' = "KeyError"
            /\ UNCHANGED rendered
    /\ UNCHANGED <<pres, shared, worker, ret, call, k, keys, view, ncalls, history>>

\* The return to the caller: update_body (line 168) or the client.
RenderSlideReturn ==
    /\ npc = "rs_return"
    /\ npc' = IF ret = "client" THEN "client" ELSE "body"
    /\ call' = NoCall
    /\ began' = 0
    /\ cleared' = 0
    /\ returned' = IF call.force \/ ret = "client" THEN returned
                   ELSE [returned EXCEPT ![call.slide] = rendered]
    /\ reduced' = IF call.force \/ ret = "client" THEN reduced
                  ELSE reduced \ {call.slide}
    /\ UNCHANGED <<pres, shared, worker, ret, rendered, k, keys, view, ncalls, puts,
                   stores, dups>>

\* line 45: self.events[slide.number].clear()
QueueRenderClear ==
    /\ npc = "qr_clear"
    /\ events' = EventClear(events, call.slide)
    /\ npc' = "qr_put"
    /\ UNCHANGED <<pres, queue, cache, worker, ret, call, rendered, k, keys, view,
                   ncalls, history>>

\* line 46: self.queue.put(slide), and the return to the caller: the for
\* loop of CurrentSlide.__init__ or the client.
QueueRenderPut ==
    /\ npc = "qr_put"
    /\ Put(call.slide)
    /\ call' = NoCall
    /\ npc' = IF ret = "client" THEN "client" ELSE "prefetch"
    /\ k' = IF ret = "client" THEN k ELSE k + 1
    /\ UNCHANGED <<pres, events, cache, worker, ret, rendered, keys, view, ncalls,
                   stores, began, cleared, returned, reduced>>

\* render_slide with lines 55 and 56 exchanged: the put before the clear.
RenderSlidePutFirst ==
    /\ npc = "rs_clear"
    /\ Put(call.slide)
    /\ npc' = "rs_put"
    /\ UNCHANGED <<pres, events, cache, worker, ret, call, rendered, k, keys, view,
                   ncalls, stores, began, cleared, returned, reduced>>

RenderSlideClearSecond ==
    /\ npc = "rs_put"
    /\ events' = EventClear(events, call.slide)
    /\ cleared' = IF call.slide \in DOMAIN cache THEN cache[call.slide].id ELSE 0
    /\ npc' = "rs_wait"
    /\ UNCHANGED <<pres, queue, cache, worker, ret, call, rendered, k, keys, view,
                   ncalls, puts, stores, began, returned, reduced, dups>>

RenderSlidePutBeforeClear ==
    \/ RenderSlideCheck
    \/ RenderSlidePutFirst
    \/ RenderSlideClearSecond
    \/ RenderSlideWait
    \/ RenderSlideRead
    \/ RenderSlideReturn

RenderSlide ==
    \/ RenderSlideCheck
    \/ RenderSlideClear
    \/ RenderSlidePut
    \/ RenderSlideWait
    \/ RenderSlideRead
    \/ RenderSlideReturn

QueueRender == QueueRenderClear \/ QueueRenderPut

(***************************************************************************)
(* CurrentSlide, run by the main thread.                                   *)
(***************************************************************************)

\* update(): update_slide_num, update_title and the call of render_slide
\* that update_body makes (line 167), force left at its default.
Update ==
    /\ npc = "update"
    /\ slide_num' = SlideText(curr_slide)
    /\ call' = [slide |-> curr_slide, force |-> FALSE]
    /\ began' = nrenders
    /\ npc' = "rs_check"
    /\ UNCHANGED <<pres, shared, worker, ret, rendered, k, keys, curr_slide,
                   slide_body, screen, ncalls, puts, stores, cleared, returned,
                   reduced, dups>>

\* update_body, line 168: self.slide_body.contents = rendered; then back in
\* __init__ (the for loop of line 141) or in keypress (line 209).
UpdateBody ==
    /\ npc = "body"
    /\ slide_body' = rendered
    /\ npc' = IF ret = "init" THEN "prefetch" ELSE "draw"
    /\ UNCHANGED <<pres, shared, worker, ret, call, rendered, k, keys, curr_slide,
                   slide_num, screen, ncalls, history>>

\* The loop of __init__ over pres.slides, slide 0 included.
PrefetchFromSlide0 ==
    /\ npc = "prefetch"
    /\ IF k < NumSlides
       THEN /\ call' = [slide |-> k, force |-> FALSE]
            /\ npc' = "qr_clear"
       ELSE /\ npc' = "run"
            /\ UNCHANGED call
    /\ UNCHANGED <<pres, shared, worker, ret, rendered, k, keys, view, ncalls, history>>

\* __init__, lines 141-142: for slide in self.pres.slides[1:]:
\* queue_render(slide), k counting the slides done; after the loop
\* Frame.__init__ and run().
Prefetch ==
    /\ npc = "prefetch"
    /\ IF k + 1 < NumSlides
       THEN /\ call' = [slide |-> k + 1, force |-> FALSE]
            /\ npc' = "qr_clear"
       ELSE /\ npc' = "run"
            /\ UNCHANGED call
    /\ UNCHANGED <<pres, shared, worker, ret, rendered, k, keys, view, ncalls, history>>

\* run(): the main loop draws the frame and waits for input.
Run ==
    /\ npc = "run"
    /\ screen' = [body |-> slide_body, num |-> slide_num]
    /\ npc' = "idle"
    /\ ret' = "key"
    /\ UNCHANGED <<pres, shared, worker, call, rendered, k, keys, curr_slide,
                   slide_body, slide_num, ncalls, history>>

\* Keys are strings; a string is the tuple of its characters, since
\* keypress unpacks one.
PrevKeys == {<<"l", "e", "f", "t">>, <<"u", "p">>, <<"d", "e", "l", "e", "t", "e">>,
             <<"h">>, <<"k">>}
NextKeys == {<<"r", "i", "g", "h", "t">>, <<"d", "o", "w", "n">>, <<" ">>, <<"j">>, <<"l">>}
QuitKeys == {<<"q">>, <<"Q">>}

\* The keys the main loop hands over: of each list one key longer than two
\* characters and one of one character, the one key of two characters, and
\* a key of no list.
Keys == {<<"l", "e", "f", "t">>, <<"u", "p">>, <<"k">>,
         <<"r", "i", "g", "h", "t">>, <<"l">>, <<"q">>, <<"x">>}

NoKey == <<>>

\* size, key = res: a string of two characters unpacks into its characters,
\* any other raises ValueError.
Unpack(res) == IF Len(res) = 2 THEN <<res[2]>> ELSE res

\* The main loop hands a key to keypress; lines 180-186: res =
\* urwid.Frame.keypress(self, size, key); None returns; else size, key = res;
\* every exception, of Frame.keypress or of the unpacking, is passed over
\* and leaves the key as it was.
Keypress ==
    /\ npc = "idle"
    /\ \E pressed \in Keys, outcome \in {"handled", "unhandled", "raised"} :
          CASE outcome = "handled" -> key' = NoKey /\ npc' = "idle"
            [] outcome = "unhandled" -> key' = Unpack(pressed) /\ npc' = "kp_key"
            [] outcome = "raised" -> key' = pressed /\ npc' = "kp_key"
    /\ UNCHANGED <<pres, shared, worker, ret, call, rendered, k, slide_direction,
                   new_slide_num, view, ncalls, history>>

\* lines 188-192: the direction a key stands for.
Direction(pressed) ==
    IF pressed \in PrevKeys THEN -1
    ELSE IF pressed \in NextKeys THEN 1
    ELSE 0

\* The clamp without its upper bound.
ClampBelowOnly(n) == IF n < 0 THEN 0 ELSE n

\* lines 198-202: the clamped target.
Clamp(n) ==
    IF n < 0 THEN 0
    ELSE IF n >= NumSlides THEN NumSlides - 1
    ELSE n

\* lines 188-202: the direction of the key, or quit (shutdown_contribs and
\* ExitMainLoop); for a direction the clamped target; any other key returns.
KeypressKey ==
    /\ npc = "kp_key"
    /\ key' = NoKey
    /\ slide_direction' = Direction(key)
    /\ IF Direction(key) # 0
       THEN /\ new_slide_num' = Clamp(curr_slide + Direction(key))
            /\ npc' = "kp_move"
       ELSE /\ npc' = IF key \in QuitKeys THEN "exited" ELSE "idle"
            /\ UNCHANGED new_slide_num
    /\ UNCHANGED <<pres, shared, worker, ret, call, rendered, k, view, ncalls, history>>

\* keypress without the test of line 204: every move updates and redraws.
KeypressMoveAlwaysUpdates ==
    /\ npc = "kp_move"
    /\ slide_direction' = 0
    /\ new_slide_num' = 0
    /\ curr_slide' = new_slide_num
    /\ npc' = "update"
    /\ UNCHANGED <<pres, shared, worker, ret, call, rendered, k, key, slide_body,
                   slide_num, screen, ncalls, history>>

\* lines 204-208: return when the target is the current slide, else make it
\* the current slide and update().
KeypressMove ==
    /\ npc = "kp_move"
    /\ slide_direction' = 0
    /\ new_slide_num' = 0
    /\ IF new_slide_num = curr_slide
       THEN /\ npc' = "idle"
            /\ UNCHANGED curr_slide
       ELSE /\ curr_slide' = new_slide_num
            /\ npc' = "update"
    /\ UNCHANGED <<pres, shared, worker, ret, call, rendered, k, key, slide_body,
                   slide_num, screen, ncalls, history>>

\* line 209: self.loop.draw_screen(), and the return to the main loop.
DrawScreen ==
    /\ npc = "draw"
    /\ screen' = [body |-> slide_body, num |-> slide_num]
    /\ npc' = "idle"
    /\ UNCHANGED <<pres, shared, worker, ret, call, rendered, k, keys, curr_slide,
                   slide_body, slide_num, ncalls, history>>

Frame == Update \/ UpdateBody \/ Prefetch \/ Run \/ Keypress \/ KeypressKey \/ KeypressMove \/ DrawScreen

Next == Frame \/ RenderSlide \/ QueueRender \/ Worker

Spec == Init /\ [][Next]_vars

(***************************************************************************)
(* The renderer under a client that calls queue_render and render_slide    *)
(* with any slide and either value of force, MaxCalls times in all; the    *)
(* frame itself never passes force.                                        *)
(***************************************************************************)
InitClient(decks) ==
    /\ pres \in decks
    /\ InitRenderer
    /\ InitLocals
    /\ npc = "client"
    /\ ret = "client"

ClientRenderSlide ==
    /\ npc = "client"
    /\ ncalls < MaxCalls
    /\ \E s \in Slides, force \in BOOLEAN : call' = [slide |-> s, force |-> force]
    /\ began' = nrenders
    /\ ncalls' = ncalls + 1
    /\ npc' = "rs_check"
    /\ UNCHANGED <<pres, shared, worker, ret, rendered, k, keys, view, puts, stores,
                   cleared, returned, reduced, dups>>

ClientQueueRender ==
    /\ npc = "client"
    /\ ncalls < MaxCalls
    /\ \E s \in Slides : call' = [slide |-> s, force |-> FALSE]
    /\ ncalls' = ncalls + 1
    /\ npc' = "qr_clear"
    /\ UNCHANGED <<pres, shared, worker, ret, rendered, k, keys, view, history>>

Client == ClientRenderSlide \/ ClientQueueRender

NextAPI == Client \/ RenderSlide \/ QueueRender \/ Worker

SpecAPI == InitClient(Decks) /\ [][NextAPI]_vars

(***************************************************************************)
(* The same two systems with the scheduling the threads get: the renderer  *)
(* thread, and the main thread inside render_slide, keep running.          *)
(* FairSpec holds the runs of the frame in which the main loop is never    *)
(* left: leaving it ends the process and with it the daemon thread; all    *)
(* slides of its decks reduce without an exception.                        *)
(***************************************************************************)
NextRunning == Next /\ npc' # "exited"

FairSpec == InitFrame(GoodDecks) /\ [][NextRunning]_vars /\ WF_vars(Worker)

FairSpecAPI ==
    InitClient(GoodDecks) /\ [][NextAPI]_vars /\ WF_vars(Worker) /\ WF_vars(RenderSlide)

(***************************************************************************)
(* The first render of the start-up, update() with its render_slide of     *)
(* slide 0 and the renderer thread, on the slides that exercise the        *)
(* render functions.                                                       *)
(***************************************************************************)
NextReduce == Update \/ RenderSlide \/ Worker

SpecReduce == InitFrame(ReduceDecks) /\ [][NextReduce]_vars

(***************************************************************************)
(* Properties.                                                             *)
(***************************************************************************)
MissPath == {"rs_clear", "rs_put", "rs_wait", "rs_read"}

\* C1: render_slide(S, force=False) called when the cache holds an entry
\* for S returns that entry at once: the step that makes the test goes
\* straight to the return with the cached entry as its value, and leaves
\* the events and the queue as they were (no clear, no put, no wait).
C1_CacheHitReturnsAtOnce ==
    [][(npc = "rs_check" /\ npc' # "rs_check"
        /\ ~call.force /\ call.slide \in DOMAIN cache)
       => /\ npc' = "rs_return"
          /\ rendered' = cache[call.slide]
          /\ UNCHANGED <<events, queue, cache, puts>>]_vars

\* A keypress has moved to a slide, render_slide found it in the cache and
\* is about to return it, and nothing but the start-up was ever queued.
C1_Witness ==
    /\ npc = "rs_return"
    /\ ret = "key"
    /\ ~call.force
    /\ call.slide \in DOMAIN cache
    /\ rendered = cache[call.slide]
    /\ Len(puts) = NumSlides

C3_ForceReturnsFreshReduction ==
    (npc = "rs_return" /\ call.force) => rendered.id > began

\* r is the result of a cache write for slide s.
StoredFor(s, r) == \E i \in DOMAIN stores : stores[i] = [slide |-> s, id |-> r.id]

InRenderSlide == npc \in {"rs_check"} \cup MissPath

\* C4: with the worker and the caller scheduled and every token reducing,
\* every render_slide(S, force) call comes to return a result the worker
\* stored for S, whatever is queued or being reduced when it is made.
C4_RenderSlideReturns ==
    InRenderSlide ~> (npc = "rs_return" /\ StoredFor(call.slide, rendered))

\* A call that queued S while an entry for S was already waiting in the
\* queue is about to return.
C4_Witness ==
    /\ npc = "rs_return"
    /\ call.slide \in dups
    /\ began < nrenders
    /\ StoredFor(call.slide, rendered)

\* Every queue entry so far has been reduced and stored, in order.
Drained ==
    /\ Len(stores) = Len(puts)
    /\ \A i \in DOMAIN puts : stores[i].slide = puts[i]
    /\ Range(puts) \subseteq DOMAIN cache

\* C5: no cancellation: with the worker scheduled and every token reducing,
\* every slide put on the queue by queue_render or render_slide is taken
\* off it, reduced and stored, whatever keys follow: at all times there is
\* a later time at which every entry put so far has been stored.
C5_EveryEntryIsRendered == []<>Drained

\* The frame is back on slide 0 and the entries that keys away from it
\* queued besides the start-up's have all been stored.
C5_Witness ==
    /\ Drained
    /\ Len(puts) > NumSlides
    /\ npc = "idle"
    /\ curr_slide = 0

\* C6: the current slide index stays in 0 .. NumSlides-1 whatever keys
\* are pressed: the target a key computes is in range, is the current index
\* or the one next to it in the key's direction, and is the current index
\* itself for a move back at 0 or forward at the last slide (no wrap).
C6_IndexStaysInRange ==
    /\ curr_slide \in Slides
    /\ slide_num.text = "slide" => slide_num.pos \in 1 .. NumSlides
    /\ npc = "kp_move" =>
         /\ new_slide_num \in Slides
         /\ new_slide_num \in {curr_slide, curr_slide + slide_direction}
         /\ (curr_slide = 0 /\ slide_direction = -1) => new_slide_num = 0
         /\ (curr_slide = NumSlides - 1 /\ slide_direction = 1)
               => new_slide_num = NumSlides - 1

\* A key for the next slide was pressed on the last slide and its target
\* has been clamped to it.
C6_Witness ==
    /\ npc = "kp_move"
    /\ slide_direction = 1
    /\ curr_slide = NumSlides - 1
    /\ new_slide_num = NumSlides - 1
    /\ Len(puts) >= NumSlides

\* C7: a key whose clamped target is the current slide changes nothing:
\* keypress returns to the main loop with the current slide, the body, the
\* slide number text, the screen, the queue, the events and the cache as
\* they were, without a call of update() or draw_screen().
C7_ClampedMoveIsNoOp ==
    [][(npc = "kp_move" /\ npc' # "kp_move" /\ new_slide_num = curr_slide)
       => /\ npc' = "idle"
          /\ UNCHANGED <<curr_slide, slide_body, slide_num, screen, call, rendered,
                         events, queue, cache, puts>>]_vars

\* A key for the previous slide was pressed on slide 0.
C7_Witness ==
    /\ npc = "kp_move"
    /\ slide_direction = -1
    /\ curr_slide = 0
    /\ new_slide_num = curr_slide
    /\ screen # NoScreen

Complete(s, r) ==
    LET full == ReduceAll(pres[s])
    IN  /\ full.err = ""
        /\ r.contents = full.piles[1].contents
        /\ r.piles = full.piles

\* C9: every cache entry is the result of the reduction of all tokens of
\* its slide, written in one update after the last token, so that what
\* render_slide returns and the frame shows is never a partly reduced slide.
C9_CacheHoldsCompleteSlides ==
    /\ \A s \in DOMAIN cache : Complete(s, cache[s])
    /\ npc = "rs_return" => Complete(call.slide, rendered)
    /\ slide_body # TestBody => \E s \in Slides : Complete(s, slide_body)

\* The worker is part way through a slide the cache does not hold yet.
C9_Witness ==
    /\ wpc = "token"
    /\ ti > 1
    /\ to_render \notin DOMAIN cache
    /\ rstate.piles[1].contents # <<>>
    /\ ~Complete(to_render, Result(nrenders, rstate))

\* The worker is idle and the queue empty.
QueueDrained == queue = <<>> /\ wpc = "get"

\* An enqueue of slide s has cleared its event and not yet put it.
Enqueueing(s) == npc \in {"rs_put", "qr_put"} /\ call.slide = s

\* C10: a slide put in the queue while the queue already holds it is
\* reduced once for each entry: every put is an entry in the queue or was
\* taken from it, the cache writes follow the puts one for one, in order, and
\* when the queue has drained every entry has been written, the cache holds
\* for such a slide the complete result of its last entry, and the slide's
\* event is set unless a new enqueue of it has just cleared it.
C10_DuplicatesReducedPerEntry ==
    /\ nrenders + Len(queue) = Len(puts)
    /\ Len(stores) <= nrenders
    /\ \A i \in DOMAIN stores : stores[i] = [slide |-> puts[i], id |-> i]
    /\ QueueDrained =>
         /\ Len(stores) = Len(puts)
         /\ \A s \in dups :
              /\ s \in DOMAIN cache
              /\ Complete(s, cache[s])
              /\ StoredFor(s, cache[s])
              /\ \A i \in DOMAIN puts : puts[i] = s => cache[s].id >= i
              /\ ~Enqueueing(s) => EventIsSet(events, s)

\* The queue has drained after it held a slide twice, and that slide was
\* reduced at least twice.
C10_Witness ==
    /\ QueueDrained
    /\ \E s \in dups :
         /\ Cardinality({i \in DOMAIN stores : stores[i].slide = s}) >= 2
         /\ EventIsSet(events, s)
         /\ s \in DOMAIN cache

\* C11: once the cache holds a result for a slide, no prefetch and no
\* unforced render_slide makes the worker replace it; the frame makes no
\* forced call, so no step of the program replaces an entry of the cache.
C11_NoUnforcedOverwrite ==
    [][\A s \in DOMAIN cache : cache'[s] = cache[s]]_vars

\* The worker has taken a step of its own (the main thread has not).
WorkerStepped == <<wpc, ti>>' # <<wpc, ti>>

\* C12: a token without a render function stops the reduction of its slide
\* there: the worker ends with AttributeError, with the piles and the stack
\* as they were (the token adds nothing), it reduces no later token and
\* writes nothing, and no step of the reduction touches the cache or an
\* event.
C12_UnregisteredTokenFailsFast ==
    [][/\ (wpc = "token" /\ WorkerStepped) => UNCHANGED <<cache, events, stores>>
       /\ (wpc = "token" /\ WorkerStepped
             /\ pres[to_render][ti].type \notin RenderFunctions)
          => /\ wpc' = "dead"
             /\ rstate'.err = "AttributeError"
             /\ rstate'.piles = rstate.piles
             /\ rstate'.stack = rstate.stack
       /\ wpc = "dead"
          => /\ UNCHANGED <<wpc, ti, to_render, rstate, cache, stores>>
             /\ \A s \in Slides : EventIsSet(events', s) => EventIsSet(events, s)]_vars

\* The worker has stopped at a token without a render function, with a
\* token after it, and the slide has no cache entry and no set event.
C12_Witness ==
    /\ wpc = "dead"
    /\ rstate.err = "AttributeError"
    /\ ti <= Len(pres[to_render])
    /\ rstate.piles[1].contents # <<>>
    /\ to_render \notin DOMAIN cache
    /\ ~EventIsSet(events, to_render)

\* C13: when the reduction of a slide has failed, a render_slide call that
\* waits for the slide does not stay blocked: never is the worker dead, the
\* caller waiting on an unset event and no step left to take.
C13_FailureReachesCaller ==
    ~(/\ wpc = "dead"
      /\ npc = "rs_wait"
      /\ call.slide = to_render
      /\ ~EventIsSet(events, call.slide)
      /\ ~ENABLED Next)

\* C14: when the wait of a render_slide call has been released, the cache
\* entry it reads was written after the call cleared the event: it is a
\* later one than the entry the cache held for the slide at the clear.
C14_WaitReleasedByFreshWrite ==
    (npc = "rs_read" /\ call.slide \in DOMAIN cache)
       => cache[call.slide].id > cleared

\* C15: an event is set only by the worker's set step for the slide it has
\* just written to the cache, no other slide's event changes in that step,
\* a set event implies a cache entry, and a call released from its wait
\* finds its slide in the cache.
C15_SignalFollowsCacheWrite ==
    /\ [](/\ \A s \in Slides : EventIsSet(events, s) => s \in DOMAIN cache
          /\ npc = "rs_read" => call.slide \in DOMAIN cache)
    /\ [][\A s \in Slides :
            /\ (~EventIsSet(events, s) /\ EventIsSet(events', s))
               => /\ wpc = "set" /\ wpc' = "get"
                  /\ to_render = s
                  /\ s \in DOMAIN cache
                  /\ cache[s].id = nrenders
                  /\ stores[Len(stores)] = [slide |-> s, id |-> nrenders]
            /\ (wpc = "set" /\ wpc' = "get" /\ to_render # s)
               => EventIsSet(events', s) = EventIsSet(events, s)]_vars

\* A call has been released for a slide while another slide's event is not
\* set.
C15_Witness ==
    /\ npc = "rs_read"
    /\ EventIsSet(events, call.slide)
    /\ call.slide \in DOMAIN cache
    /\ \E b \in Slides \ {call.slide} : ~EventIsSet(events, b) /\ b \notin DOMAIN cache

\* C16: one slide at a time goes through the worker, in the order of the
\* puts: the queue is the puts not yet taken, the slide in hand is the last
\* taken, the cache writes are the puts in order with at most the slide in
\* hand missing, only the worker's store step changes the cache, and the
\* event is set after the write.
C16_SerializedInPutOrder ==
    /\ [](/\ queue = SubSeq(puts, nrenders + 1, Len(puts))
          /\ \A i \in DOMAIN stores : stores[i].slide = puts[i]
          /\ wpc \in {"token", "store", "dead"}
                => (to_render = puts[nrenders] /\ Len(stores) = nrenders - 1)
          /\ wpc = "set" => (to_render = puts[nrenders] /\ Len(stores) = nrenders)
          /\ wpc = "get" => (Len(stores) = nrenders /\ rstate = IdleReduction))
    /\ [][cache' # cache
            => /\ wpc = "store" /\ wpc' = "set"
               /\ npc' = npc
               /\ cache' = CachePut(cache, to_render, Result(nrenders, rstate))]_vars

\* The worker is part way through a slide while another slide, put after
\* it, waits in the queue.
C16_Witness ==
    /\ wpc = "token"
    /\ ti > 1
    /\ queue # <<>>
    /\ queue[1] # to_render
    /\ puts = <<to_render>> \o queue

StartTypes == {"list_start", "list_item_start", "loose_item_start", "block_quote_start"}

EndTypes == {"list_end", "list_item_end", "block_quote_end"}

\* Start tokens less end tokens among the types of `types` in the first n
\* tokens.
Open(tokens, n, starts, ends) ==
    Cardinality({i \in 1 .. n : tokens[i].type \in starts})
       - Cardinality({i \in 1 .. n : tokens[i].type \in ends})

Balanced(tokens) ==
    /\ \A n \in 1 .. Len(tokens) : Open(tokens, n, StartTypes, EndTypes) >= 0
    /\ Open(tokens, Len(tokens), StartTypes, EndTypes) = 0

\* C17: on a slide with balanced start and end tokens the worker starts
\* with the root frame alone, the stack always holds the root frame at its
\* bottom and one frame for each start token still open, a start token
\* pushes one new frame, an end token pops one, any other token leaves the
\* stack as it is, and after the last token the stack is the root frame
\* alone.
C17_StackKeepsRootFrame ==
    /\ [](wpc \in {"token", "store", "dead"} /\ Balanced(pres[to_render])
            => /\ Len(rstate.stack) >= 1
               /\ rstate.stack[1] = 1
               /\ Len(rstate.stack)
                     = 1 + Open(pres[to_render], ti - 1, StartTypes, EndTypes)
               /\ wpc = "store" => rstate.stack = <<1>>)
    /\ [][(wpc = "get" /\ wpc' # "get") => rstate' = StartReduction]_vars
    /\ [][(wpc = "token" /\ WorkerStepped /\ Balanced(pres[to_render]))
            => LET type == pres[to_render][ti].type
                   stack == rstate.stack
               IN  rstate'.stack =
                      IF type \in StartTypes
                      THEN Append(stack, Len(rstate.piles) + 1)
                      ELSE IF type \in EndTypes
                           THEN SubSeq(stack, 1, Len(stack) - 1)
                           ELSE stack]_vars

\* The last token of a slide nested MaxDepth deep has been reduced.
C17_Witness ==
    /\ wpc = "store"
    /\ rstate.stack = <<1>>
    /\ \E n \in DOMAIN pres[to_render] :
          Open(pres[to_render], n, StartTypes, EndTypes) >= 2 * MaxDepth - 1

ListTypes == {"list_start", "list_item_start", "list_item_end", "list_end"}

OnlyLists(tokens) == \A i \in DOMAIN tokens : tokens[i].type \in ListTypes

\* Lists open after the first n tokens.
OpenLists(tokens, n) == Open(tokens, n, {"list_start"}, {"list_end"})

\* C18: on a balanced slide of list tokens the level follows the nesting:
\* a list's frame carries the number of lists open, its first list 1, a
\* list inside an item of a level-k list k+1, and an item is rendered with
\* the bullet of the number of lists open around it, also after an inner
\* list has ended.
C18_ListLevelIsNestingDepth ==
    (wpc = "token" /\ ti > 1 /\ OnlyLists(pres[to_render]) /\ Balanced(pres[to_render]))
       => LET tokens == pres[to_render]
              depth == OpenLists(tokens, ti - 1)
              top == rstate.piles[Top(rstate)]
              under == rstate.piles[rstate.stack[Len(rstate.stack) - 1]]
              last == under.contents[Len(under.contents)]
          IN  /\ tokens[ti - 1].type = "list_start"
                 => /\ _is_list(top)
                    /\ _list_level(top) = depth
                    /\ Widget("Padding", Top(rstate), "", 2) \in Range(under.contents)
              /\ tokens[ti - 1].type = "list_item_start"
                 => /\ depth >= 1
                    /\ _list_level(under) = depth
                    /\ last = Widget("Columns", Top(rstate), "", BulletStyle(depth))
              /\ tokens[ti].type = "list_item_start"
                 => _list_level(top) = depth

\* An item of a level-2 list is about to be rendered after a level-3 list
\* inside its elder sibling has ended.
C18_Witness ==
    /\ wpc = "token"
    /\ ti > 1
    /\ OnlyLists(pres[to_render])
    /\ pres[to_render][ti].type = "list_item_start"
    /\ pres[to_render][ti - 1].type = "list_item_end"
    /\ _list_level(rstate.piles[Top(rstate)]) = 2
    /\ \E i \in 1 .. (ti - 1) :
          pres[to_render][i].type = "list_end" /\ OpenLists(pres[to_render], i - 1) = 3

\* C19: when a token has pushed a frame, the new frame's metadata is that
\* of the frame that was on top, overridden by what the new frame set
\* itself: an item's or a block quote's frame takes it over as it is, a
\* list's frame keeps is_list and its own level; the metadata of every
\* frame there was stays as it was.
C19_PushedFrameInheritsMeta ==
    [][(wpc = "token" /\ WorkerStepped /\ Len(rstate'.stack) > Len(rstate.stack))
         => LET type == pres[to_render][ti].type
                parent == rstate.piles[Top(rstate)]
                child == rstate'.piles[Top(rstate')]
            IN  /\ \A i \in DOMAIN rstate.piles :
                      rstate'.piles[i].meta = rstate.piles[i].meta
                /\ type \in {"list_item_start", "loose_item_start", "block_quote_start"}
                      => child.meta = parent.meta
                /\ type = "list_start"
                      => /\ DOMAIN child.meta = {"is_list", "list_level"}
                         /\ child.meta["is_list"]
                         /\ child.meta["list_level"]
                               = IF _is_list(parent) THEN _list_level(parent) + 1 ELSE 1]_vars

\* A block quote's frame, pushed inside an item of a level-2 list, carries
\* is_list and level 2.
C19_Witness ==
    /\ wpc = "token"
    /\ ti > 1
    /\ pres[to_render][ti - 1].type = "block_quote_start"
    /\ rstate.piles[Top(rstate)].meta = [is_list |-> TRUE, list_level |-> 2]
    /\ rstate.piles[rstate.stack[Len(rstate.stack) - 1]].meta
          = [is_list |-> TRUE, list_level |-> 2]

\* One leading Divider less if the first entry is one, then one trailing
\* Divider less if the last entry is one.
TrimDividers(c) ==
    LET c1 == IF c # <<>> /\ IsDivider(c[1]) THEN Tail(c) ELSE c
    IN  IF c1 # <<>> /\ IsDivider(c1[Len(c1)]) THEN SubSeq(c1, 1, Len(c1) - 1) ELSE c1

\* C20: whatever the contents of a block quote's frame, the empty one and
\* a single Divider included, the block quote's end token pops the frame,
\* raises nothing and leaves the contents less one leading and one
\* trailing Divider where there is one.
C20_QuoteEndTrimsDividers ==
    [][(wpc = "token" /\ WorkerStepped /\ pres[to_render][ti].type = "block_quote_end"
          /\ Balanced(pres[to_render]))
         => LET id == Top(rstate)
            IN  /\ rstate'.err = ""
                /\ rstate'.stack = SubSeq(rstate.stack, 1, Len(rstate.stack) - 1)
                /\ rstate'.piles[id].contents = TrimDividers(rstate.piles[id].contents)]_vars

====
